---- MODULE Spec2Model ----
(***************************************************************************)
(* Model of the allocators crate: LinearAllocator (a bump allocator over   *)
(* one block, allocators/src/linear_allocator.rs) and ScopedScratch (the   *)
(* scope stack built on it, allocators/src/scoped_scratch.rs).             *)
(*                                                                         *)
(* Addresses are absolute integers.  The block's memory is modelled by the *)
(* list of regions written into it (allocs): every region remembers who    *)
(* wrote it and whether a later write has overwritten it while its writer  *)
(* was alive.  The destructor chain of a scope lives in those regions, as  *)
(* in the code.                                                            *)
(***************************************************************************)
EXTENDS Integers, Sequences, FiniteSets, TLC

(***************************************************************************)
(* Bounds of the model.                                                    *)
(***************************************************************************)
\* scopes created over the whole run
MaxScopes == 3
\* allocations that wrote into the block over the whole run
MaxAllocs == 2

(***************************************************************************)
(* Program constants.                                                      *)
(***************************************************************************)
\* linear_allocator.rs:14
L1_CACHE_LINE_SIZE == 64
\* size_of::<ScopeData>() on a 64-bit target: *mut u8, fat reference, reference
ScopeDataSize == 32
\* align_of::<ScopeData>()
ScopeDataAlign == 8

\* The value types the callers allocate: size_of, align_of and needs_drop.
Types ==
    { [name |-> "u8",   size |-> 1, align |-> 1, needs_drop |-> FALSE],
      [name |-> "Box",  size |-> 8, align |-> 8, needs_drop |-> TRUE] }

\* The value types with drop glue among Types
DropTypes == {ty \in Types : ty.needs_drop}

\* Values with drop glue of two sizes: the Box, and the struct around a
\* Vec<u32> of tests::alloc_obj.
ObjTypes ==
    { [name |-> "Box",    size |-> 8,  align |-> 8, needs_drop |-> TRUE],
      [name |-> "VecU32", size |-> 24, align |-> 8, needs_drop |-> TRUE] }

\* The capacities the allocator under the scopes is constructed with: room
\* for exactly one, and for exactly two, ScopeData and Box.
Capacities == {40, 80}

\* The value types the tests of LinearAllocator allocate, the unit type, and
\* a #[repr(align(128))] type, whose alignment is above the block's.
LinearTypes ==
    { [name |-> "u8",      size |-> 1,    align |-> 1, needs_drop |-> FALSE],
      [name |-> "unit",    size |-> 0,    align |-> 1, needs_drop |-> FALSE],
      [name |-> "u32",     size |-> 4,    align |-> 4, needs_drop |-> FALSE],
      [name |-> "u64",     size |-> 8,    align |-> 8, needs_drop |-> FALSE],
      [name |-> "A128",    size |-> 128,  align |-> 128, needs_drop |-> FALSE],
      [name |-> "u8x256",  size |-> 256,  align |-> 1, needs_drop |-> FALSE],
      [name |-> "u32x250", size |-> 1000, align |-> 4, needs_drop |-> FALSE],
      [name |-> "u8x1025", size |-> 1025, align |-> 1, needs_drop |-> FALSE] }

\* The capacities LinearAllocator is constructed with on its own: the 1024 of
\* its tests, and one that is not a multiple of every alignment.
LinearCapacities == {12, 1024}

\* isize::MAX of a target whose pointers are 16 bits wide, the narrowest
\* usize there is
IsizeMax == 32767
\* usize::MAX of that target
UsizeMax == 2 * IsizeMax + 1

\* Value types at the limits of that target: a byte, [u16; 8191], a
\* #[repr(align(8192))] type, and the [u8; 16383] that the size assert of
\* alloc_internal is the first to refuse.
WideTypes ==
    { [name |-> "u8",       size |-> 1,     align |-> 1, needs_drop |-> FALSE],
      [name |-> "u16x8191", size |-> 16382, align |-> 2, needs_drop |-> FALSE],
      [name |-> "A8192",    size |-> 8192,  align |-> 8192,
       needs_drop |-> FALSE],
      [name |-> "u8x16383", size |-> 16383, align |-> 1,
       needs_drop |-> FALSE] }

\* The capacities LinearAllocator::new is called with: none, small, the
\* largest the asserts and the layout let through with room for the pointers
\* of RewindTokens, and the two at the limit of the assert.
NewSizes == {0, 12, IsizeMax - 2 * L1_CACHE_LINE_SIZE, IsizeMax - 1, IsizeMax}

\* The address std::alloc::alloc returned for the 64-aligned layout: a
\* multiple of 64 that is not a multiple of 128.
BlockStarts == {L1_CACHE_LINE_SIZE}

VARIABLES
    block_start,        \* LinearAllocator.block_start
    size_bytes,         \* LinearAllocator.size_bytes
    next_alloc,         \* LinearAllocator.next_alloc
    debug_assertions,   \* whether the build keeps debug_assert!
    scopes,             \* the ScopedScratch values, in creation order
    allocs,             \* the regions written into the block, oldest first
    dtor_log,           \* the destructor calls made by drops, oldest first
    last,               \* the last operation and its outcome
    peeked,             \* the pointer the caller's last peek() returned
    halted              \* the process has aborted or hangs

vars == <<block_start, size_bytes, next_alloc, debug_assertions, scopes,
          allocs, dtor_log, last, peeked, halted>>

ScopeIds == 1..MaxScopes

\* a scope that has not been created yet
NoScope ==
    [state |-> "none", alloc_start |-> 0, data_chain |-> 0,
     parent_locked |-> 0, locked |-> FALSE, born |-> 0]

Live(s) == scopes[s].state = "live"

LiveScopes == {s \in ScopeIds : Live(s)}

LiveChildren(p) == {s \in LiveScopes : scopes[s].parent_locked = p}

\* the scopes created so far
NumCreated == Cardinality({s \in ScopeIds : scopes[s].state # "none"})

\* the regions of mem written by scope s
RegionsBy(mem, s) == {i \in 1..Len(mem) : mem[i].scope = s}

\* the objects with drop glue that scope s holds, in allocation order
RECURSIVE DropObjects(_, _, _)
DropObjects(mem, s, i) ==
    IF i > Len(mem) THEN <<>>
    ELSE IF mem[i].scope = s /\ mem[i].kind = "obj" /\ mem[i].needs_drop
         THEN <<i>> \o DropObjects(mem, s, i + 1)
         ELSE DropObjects(mem, s, i + 1)

RECURSIVE Reverse(_)
Reverse(q) == IF q = <<>> THEN <<>> ELSE Append(Reverse(Tail(q)), Head(q))

(***************************************************************************)
(* LinearAllocator                                                         *)
(***************************************************************************)

AlignOffset_FromBlockStart(addr, align) ==
    (align - ((addr - block_start) % align)) % align

AlignOffset_Always(addr, align) == align - (addr % align)

\* <*mut u8>::align_offset: bytes to add to addr to reach a multiple of align
AlignOffset(addr, align) == (align - (addr % align)) % align

PreviousSize_Zero(cur) == 0

\* next_alloc.offset_from(self.block_start)
PreviousSize(cur) == cur - block_start

\* next_alloc.offset_from(self.block_start) as usize
PreviousSizeUsize(cur) == (cur - block_start) % (UsizeMax + 1)

\* assert!(size_bytes < (isize::MAX / 2) as usize)
SizeAdmitted(size) == size < IsizeMax \div 2

Fits_OffByOne(new_size) == ~(new_size > size_bytes + 1)

Fits_Strict(new_size) == new_size < size_bytes

\* the test that lets an allocation through: !(new_size > self.size_bytes)
Fits(new_size) == ~(new_size > size_bytes)

RemainingBytes_Whole(previous_size) == size_bytes

\* the remaining-bytes value of the out-of-memory panic
RemainingBytes(previous_size) == size_bytes - previous_size

\* One call of alloc_internal for a value of the given size and alignment
\* with the cursor at cur: whether it returns, the address it returns and
\* the cursor it leaves.  (Every size in Types is far below isize::MAX / 2,
\* so the assertion on the size always passes.)
AllocInternalCall(cur, size, align) ==
    LET align_offset  == AlignOffset(cur, align)
        previous_size == PreviousSize(cur)
        new_size      == previous_size + align_offset + size
    IN  IF ~SizeAdmitted(size)
        THEN [ok |-> FALSE, admitted |-> FALSE, pre |-> cur, size |-> size,
              align |-> align, addr |-> 0, post |-> cur, remaining |-> 0]
        ELSE IF Fits(new_size)
        THEN [ok |-> TRUE, admitted |-> TRUE, pre |-> cur, size |-> size,
              align |-> align,
              addr |-> cur + align_offset,
              post |-> cur + align_offset + size,
              remaining |-> 0]
        ELSE [ok |-> FALSE, admitted |-> TRUE, pre |-> cur, size |-> size,
              align |-> align,
              addr |-> 0,
              post |-> cur,
              remaining |-> RemainingBytes(previous_size)]

\* the panic of an alloc_internal that did not allocate: of the size assert,
\* or of the test against the capacity
PanicOf(c) == IF c.admitted THEN "panic_oom" ELSE "panic_size"

RewindInBounds_Closed(alloc) ==
    alloc >= block_start /\ alloc <= block_start + size_bytes

\* the debug_assert! of rewind
RewindInBounds(alloc) ==
    alloc >= block_start /\ alloc < block_start + size_bytes

\* rewind panics instead of moving the cursor when the build keeps
\* debug_assert! and the assertion fails
RewindPanics(alloc) == debug_assertions /\ ~RewindInBounds(alloc)

\* peek
Peek == next_alloc

InBlock_Any(alloc) == TRUE

\* what the safety comments of alloc_internal rely on: the cursor is within
\* the allocation or one byte past it
InBlock(alloc) == alloc >= block_start /\ alloc <= block_start + size_bytes

SizeRefused_ZeroAllowed(size) == ~(size < IsizeMax)

\* the two asserts at the head of LinearAllocator::new
SizeRefused(size) == size = 0 \/ ~(size < IsizeMax)

\* Layout::from_size_align(size_bytes, ALIGN) is an Err when size_bytes
\* rounded up to a multiple of ALIGN is above isize::MAX; expect panics on it
LayoutFails(size) == size > IsizeMax - (L1_CACHE_LINE_SIZE - 1)

(***************************************************************************)
(* The block's memory                                                      *)
(***************************************************************************)

\* two byte ranges [a, a + n) and [b, b + m) share a byte
Overlaps(a, n, b, m) == n > 0 /\ m > 0 /\ a < b + m /\ b < a + n

\* a region written by a scope that has not been dropped
LiveRegion(r) == r.scope # 0 /\ Live(r.scope)

\* t_ptr.write(obj): writing size bytes at addr overwrites every region of
\* a live scope that shares a byte with them
Written(mem, addr, size) ==
    [i \in 1..Len(mem) |->
        IF LiveRegion(mem[i]) /\ Overlaps(mem[i].addr, mem[i].size, addr, size)
        THEN [mem[i] EXCEPT !.intact = FALSE]
        ELSE mem[i]]

Region(kind, scope, ty, addr, target, previous) ==
    [kind |-> kind, scope |-> scope, addr |-> addr, size |-> ty.size,
     align |-> ty.align, needs_drop |-> ty.needs_drop,
     target |-> target, previous |-> previous, intact |-> TRUE]

\* the ScopeData that alloc puts in front of an object with drop glue
ScopeData ==
    [name |-> "ScopeData", size |-> ScopeDataSize, align |-> ScopeDataAlign,
     needs_drop |-> FALSE]

(***************************************************************************)
(* ScopedScratch                                                           *)
(***************************************************************************)

NoType == [name |-> "", size |-> 0, align |-> 1, needs_drop |-> FALSE]

NoLast ==
    [op |-> "init", scope |-> 0, ty |-> NoType, result |-> "ok",
     was_locked |-> FALSE, unwinding |-> FALSE,
     pre_cursor |-> 0, pre_chain |-> 0, calls |-> <<>>,
     value |-> 0]

\* a panic of alloc is unwinding the stack: the operation before was an alloc
\* that panicked, or a drop that such an unwinding ran
Unwinding ==
    \/ last.op = "alloc" /\ last.result # "ok"
    \/ last.op = "drop" /\ last.unwinding

\* the record of an operation on scope (0: on the allocator itself)
Outcome(op, scope, result, calls) ==
    [NoLast EXCEPT
        !.op = op, !.scope = scope, !.result = result, !.calls = calls,
        !.unwinding = (op = "drop" /\ Unwinding),
        !.was_locked = IF scope = 0 THEN FALSE ELSE scopes[scope].locked,
        !.pre_cursor = next_alloc,
        !.pre_chain = IF scope = 0 THEN 0 ELSE scopes[scope].data_chain]

FreshScope_AtBlockStart(parent) ==
    [state |-> "live", alloc_start |-> block_start, data_chain |-> 0,
     parent_locked |-> parent, locked |-> FALSE, born |-> Len(allocs)]

\* the value a freshly constructed ScopedScratch has (new and new_scope)
FreshScope(parent) ==
    [state |-> "live", alloc_start |-> Peek, data_chain |-> 0,
     parent_locked |-> parent, locked |-> FALSE, born |-> Len(allocs)]

\* ScopedScratch::new(&mut allocator): the exclusive borrow of the allocator
\* means that no other scope over it is alive
New ==
    /\ ~halted
    /\ LiveScopes = {}
    /\ NumCreated < MaxScopes
    /\ scopes' = [scopes EXCEPT ![NumCreated + 1] = FreshScope(0)]
    /\ last' = [Outcome("new", 0, "ok", <<>>) EXCEPT !.value = NumCreated + 1]
    /\ UNCHANGED <<block_start, size_bytes, next_alloc, debug_assertions,
                   peeked, allocs, dtor_log, halted>>

\* p.new_scope(): no test of p.locked precedes the assignment
NewScope(p) ==
    /\ ~halted
    /\ Live(p)
    /\ NumCreated < MaxScopes
    /\ scopes' = [scopes EXCEPT ![p].locked = TRUE,
                                ![NumCreated + 1] = FreshScope(p)]
    /\ last' = [Outcome("new_scope", p, "ok", <<>>) EXCEPT
                    !.value = NumCreated + 1]
    /\ UNCHANGED <<block_start, size_bytes, next_alloc, debug_assertions,
                   peeked, allocs, dtor_log, halted>>

AllocRefuses_Never(s) == FALSE

\* the assert! at the head of alloc
AllocRefuses(s) == scopes[s].locked

\* the allocations that wrote into the block: one per object, and one per
\* ScopeData whose object did not fit
NumAllocs ==
    Cardinality({i \in 1..Len(allocs) :
                    allocs[i].kind = "obj" \/ allocs[i].target = 0})

\* s.alloc(obj) for a type without drop glue: alloc_internal(obj)
AllocPod(s, ty) ==
    LET c == AllocInternalCall(next_alloc, ty.size, ty.align)
    IN  /\ next_alloc' = c.post
        /\ allocs' = IF c.ok
                      THEN Append(Written(allocs, c.addr, c.size),
                                  Region("obj", s, ty, c.addr, 0, 0))
                      ELSE allocs
        /\ last' = [Outcome("alloc", s, IF c.ok THEN "ok" ELSE PanicOf(c),
                             <<c>>) EXCEPT !.ty = ty]
        /\ UNCHANGED scopes

\* s.alloc(obj) for a type with drop glue: the ScopeData first, then obj,
\* then data.mem and self.data_chain
AllocDrop(s, ty) ==
    LET c1   == AllocInternalCall(next_alloc, ScopeData.size, ScopeData.align)
        c2   == AllocInternalCall(c1.post, ty.size, ty.align)
        node == Len(allocs) + 1
        mem1 == Append(Written(allocs, c1.addr, c1.size),
                       Region("node", s, ScopeData, c1.addr, 0,
                              scopes[s].data_chain))
        mem2 == Append(Written(mem1, c2.addr, c2.size),
                       Region("obj", s, ty, c2.addr, 0, 0))
    IN  IF ~c1.ok
        THEN /\ last' = [Outcome("alloc", s, "panic_oom", <<c1>>)
                             EXCEPT !.ty = ty]
             /\ UNCHANGED <<next_alloc, allocs, scopes>>
        ELSE IF ~c2.ok
        THEN /\ next_alloc' = c1.post
             /\ allocs' = mem1
             /\ last' = [Outcome("alloc", s, PanicOf(c2), <<c1, c2>>)
                             EXCEPT !.ty = ty]
             /\ UNCHANGED scopes
        ELSE /\ next_alloc' = c2.post
             /\ allocs' = [mem2 EXCEPT ![node].target = node + 1]
             /\ scopes' = [scopes EXCEPT ![s].data_chain = node]
             /\ last' = [Outcome("alloc", s, "ok", <<c1, c2>>)
                             EXCEPT !.ty = ty]

\* s.alloc(obj)
Alloc(s, ty) ==
    /\ ~halted
    /\ Live(s)
    /\ NumAllocs < MaxAllocs
    /\ IF AllocRefuses(s)
       THEN /\ last' = [Outcome("alloc", s, "panic_locked", <<>>)
                            EXCEPT !.ty = ty]
            /\ UNCHANGED <<next_alloc, allocs, scopes>>
       ELSE IF ~ty.needs_drop
       THEN AllocPod(s, ty)
       ELSE AllocDrop(s, ty)
    /\ UNCHANGED <<block_start, size_bytes, debug_assertions, peeked, dtor_log,
                   halted>>

\* allocator.alloc_internal(obj) called on the allocator itself, which the
\* borrow rules allow only while no scope over it is alive
AllocInternal(ty) ==
    LET c == AllocInternalCall(next_alloc, ty.size, ty.align)
    IN  /\ ~halted
        /\ LiveScopes = {}
        /\ NumAllocs < MaxAllocs
        /\ next_alloc' = c.post
        /\ allocs' = IF c.ok
                      THEN Append(Written(allocs, c.addr, c.size),
                                  Region("obj", 0, ty, c.addr, 0, 0))
                      ELSE allocs
        /\ last' = [Outcome("alloc_internal", 0,
                             IF c.ok THEN "ok" ELSE PanicOf(c), <<c>>)
                        EXCEPT !.ty = ty]
        /\ UNCHANGED <<block_start, size_bytes, debug_assertions, peeked,
                       scopes, dtor_log, halted>>

\* allocator.peek()
PeekOp ==
    /\ ~halted
    /\ last' = [Outcome("peek", 0, "ok", <<>>) EXCEPT !.value = Peek]
    /\ peeked' = Peek
    /\ UNCHANGED <<block_start, size_bytes, next_alloc, debug_assertions,
                   scopes, allocs, dtor_log, halted>>

\* The pointers the callers hand to rewind: what peek() returned (rewind),
\* 0x1 (rewind_assert_below), block_start + size_bytes (rewind_assert_above),
\* the start of the block and the first pointer past rewind_assert_above's.
RewindTokens ==
    ({peeked} \ {0})
    \cup {1, block_start,
          block_start + size_bytes, block_start + size_bytes + 1}

Rewind_DropsRewound(alloc) ==
    LET over == {i \in 1..Len(allocs) :
                    allocs[i].needs_drop /\ allocs[i].addr >= alloc}
    IN  /\ ~halted
        /\ LiveScopes = {}
        /\ IF RewindPanics(alloc)
           THEN /\ last' = [Outcome("rewind", 0, "panic_rewind", <<>>)
                                EXCEPT !.value = alloc]
                /\ UNCHANGED <<next_alloc, halted, dtor_log>>
           ELSE /\ next_alloc' = alloc
                /\ last' = [Outcome("rewind", 0, "ok", <<>>)
                                EXCEPT !.value = alloc]
                /\ halted' = ~InBlock(alloc)
                /\ dtor_log' = IF over = {} THEN dtor_log
                               ELSE Append(dtor_log,
                                           [by |-> 0,
                                            target |-> CHOOSE i \in over : TRUE])
        /\ UNCHANGED <<block_start, size_bytes, debug_assertions, peeked,
                       scopes, allocs>>

\* allocator.rewind(alloc) called on the allocator itself.  Without
\* debug_assert! a pointer outside the block becomes the cursor, and the
\* offset_from of the next alloc_internal is undefined: nothing is modelled
\* after it.
Rewind(alloc) ==
    /\ ~halted
    /\ LiveScopes = {}
    /\ IF RewindPanics(alloc)
       THEN /\ last' = [Outcome("rewind", 0, "panic_rewind", <<>>)
                            EXCEPT !.value = alloc]
            /\ UNCHANGED <<next_alloc, halted>>
       ELSE /\ next_alloc' = alloc
            /\ last' = [Outcome("rewind", 0, "ok", <<>>) EXCEPT !.value = alloc]
            /\ halted' = ~InBlock(alloc)
    /\ UNCHANGED <<block_start, size_bytes, debug_assertions, peeked, scopes,
                   allocs, dtor_log>>

\* LinearAllocator::new(size): the asserts, the layout, then
\* std::alloc::alloc, which returns the block or null; on null
\* handle_alloc_error brings the process down
LinearAllocatorNew(size) ==
    /\ ~halted
    /\ block_start = 0
    /\ IF SizeRefused(size)
       THEN /\ last' = [Outcome("linear_new", 0, "panic_size", <<>>)
                            EXCEPT !.value = size]
            /\ UNCHANGED <<block_start, size_bytes, next_alloc, halted>>
       ELSE IF LayoutFails(size)
       THEN /\ last' = [Outcome("linear_new", 0, "panic_layout", <<>>)
                            EXCEPT !.value = size]
            /\ UNCHANGED <<block_start, size_bytes, next_alloc, halted>>
       ELSE \E b \in BlockStarts \cup {0} :
               IF b = 0
               THEN /\ halted' = TRUE
                    /\ last' = [Outcome("linear_new", 0, "abort", <<>>)
                                    EXCEPT !.value = size]
                    /\ UNCHANGED <<block_start, size_bytes, next_alloc>>
               ELSE /\ block_start' = b
                    /\ size_bytes' = size
                    /\ next_alloc' = b
                    /\ last' = [Outcome("linear_new", 0, "ok", <<>>)
                                    EXCEPT !.value = size]
                    /\ UNCHANGED halted
    /\ UNCHANGED <<debug_assertions, peeked, scopes, allocs, dtor_log>>

\* What a read of the ScopeData at region n yields.  In a ScopeData that a
\* later write has overwritten each field holds what was stored or arbitrary
\* bytes: a dtor that reads as None, a mem that is the address of no object
\* (-1), a previous that reads as None; following an arbitrary dtor or
\* previous may also bring the process down or never return.
NodeReads(n) ==
    IF allocs[n].intact
    THEN {[dtor |-> TRUE, mem |-> allocs[n].target,
           previous |-> allocs[n].previous, status |-> "done"]}
    ELSE [dtor : BOOLEAN,
          mem : {-1, allocs[n].target},
          previous : {0, allocs[n].previous},
          status : {"done"}]
         \cup [dtor : {FALSE}, mem : {-1}, previous : {0},
                status : {"abort", "hang"}]

\* dtor(scope.mem) returns, unless it runs on bytes that are not the object
\* it was bound to, where it may also bring the process down
DtorReturns(mem) ==
    IF mem >= 1 /\ allocs[mem].intact THEN {TRUE} ELSE {TRUE, FALSE}

\* iter_chain with the closure of drop: the destructor calls made from the
\* node h on, in order, and how the walk ends
RECURSIVE IterChain(_)
IterChain(h) ==
    IF h = 0 THEN {[calls |-> <<>>, status |-> "done"]}
    ELSE UNION {
        IF c.status # "done"
        THEN {[calls |-> <<>>, status |-> c.status]}
        ELSE IF ~c.dtor
        THEN IterChain(c.previous)
        ELSE UNION {
            IF returns
            THEN {[calls |-> <<c.mem>> \o r.calls, status |-> r.status] :
                      r \in IterChain(c.previous)}
            ELSE {[calls |-> <<c.mem>>, status |-> "abort"]}
            : returns \in DtorReturns(c.mem)}
        : c \in NodeReads(h)}

\* data_chain_len: iter_chain with the closure that counts, from the node h
\* on: the count it reaches and how the walk ends
RECURSIVE DataChainLen(_)
DataChainLen(h) ==
    IF h = 0 THEN {[len |-> 0, status |-> "done"]}
    ELSE UNION {
        IF c.status # "done"
        THEN {[len |-> 0, status |-> c.status]}
        ELSE {[len |-> r.len + 1, status |-> r.status] :
                  r \in DataChainLen(c.previous)}
        : c \in NodeReads(h)}

\* s.data_chain_len()
ScopeChainLen(s) == DataChainLen(scopes[s].data_chain)

\* the destructor calls of one drop as entries of dtor_log
Logged(s, calls) == [i \in 1..Len(calls) |-> [by |-> s, target |-> calls[i]]]

\* the scopes after the drop of s has cleared the parent's flag
Unlocked(s) ==
    IF scopes[s].parent_locked # 0
    THEN [scopes EXCEPT ![s].state = "dropped",
                        ![scopes[s].parent_locked].locked = FALSE]
    ELSE [scopes EXCEPT ![s].state = "dropped"]

RewindPanicked_Unlocks(s) == Unlocked(s)

\* the scopes after the drop of s has panicked in rewind: s is gone, and
\* control has left drop before the parent's flag is reached
RewindPanicked(s) == [scopes EXCEPT ![s].state = "dropped"]

\* drop(s): the borrow of the parent held by every child means s has no
\* live child
Drop(s) ==
    /\ ~halted
    /\ Live(s)
    /\ LiveChildren(s) = {}
    /\ \E o \in IterChain(scopes[s].data_chain) :
          /\ dtor_log' = dtor_log \o Logged(s, o.calls)
          /\ IF o.status # "done"
             THEN /\ halted' = TRUE
                  /\ last' = Outcome("drop", s, o.status, <<>>)
                  /\ UNCHANGED <<next_alloc, scopes>>
             ELSE IF RewindPanics(scopes[s].alloc_start)
             THEN /\ scopes' = RewindPanicked(s)
                  /\ last' = Outcome("drop", s, "panic_rewind", <<>>)
                  /\ UNCHANGED <<next_alloc, halted>>
             ELSE /\ next_alloc' = scopes[s].alloc_start
                  /\ scopes' = Unlocked(s)
                  /\ last' = Outcome("drop", s, "ok", <<>>)
                  /\ UNCHANGED halted
    /\ UNCHANGED <<block_start, size_bytes, debug_assertions, peeked, allocs>>

(***************************************************************************)
(* The program                                                             *)
(***************************************************************************)

\* LinearAllocator::new(size_bytes) has returned; nothing else has run
Init ==
    /\ block_start \in BlockStarts
    /\ size_bytes \in Capacities
    /\ next_alloc = block_start
    /\ debug_assertions \in BOOLEAN
    /\ scopes = [s \in ScopeIds |-> NoScope]
    /\ allocs = <<>>
    /\ dtor_log = <<>>
    /\ last = NoLast
    /\ peeked = 0
    /\ halted = FALSE

\* the operations of ScopedScratch and of LinearAllocatorInternal
Next ==
    \/ New
    \/ \E p \in ScopeIds : NewScope(p)
    \/ \E s \in ScopeIds, ty \in Types : Alloc(s, ty)
    \/ \E ty \in Types : AllocInternal(ty)
    \/ \E s \in ScopeIds : Drop(s)

Spec == Init /\ [][Next]_vars

\* the operations of ScopedScratch on values with drop glue of two sizes
NextObj ==
    \/ New
    \/ \E p \in ScopeIds : NewScope(p)
    \/ \E s \in ScopeIds, ty \in ObjTypes : Alloc(s, ty)
    \/ \E s \in ScopeIds : Drop(s)

SpecObj == Init /\ [][NextObj]_vars

\* the operations of ScopedScratch, and alloc_internal and rewind on the
\* allocator while no scope borrows it, on values with drop glue
NextRewind ==
    \/ New
    \/ \E p \in ScopeIds : NewScope(p)
    \/ \E s \in ScopeIds, ty \in DropTypes : Alloc(s, ty)
    \/ \E ty \in DropTypes : AllocInternal(ty)
    \/ \E alloc \in RewindTokens : Rewind(alloc)
    \/ \E s \in ScopeIds : Drop(s)

SpecRewind == Init /\ [][NextRewind]_vars

\* the operations of ScopedScratch on values with drop glue, and peek
NextPeek ==
    \/ New
    \/ \E p \in ScopeIds : NewScope(p)
    \/ \E s \in ScopeIds, ty \in DropTypes : Alloc(s, ty)
    \/ PeekOp
    \/ \E s \in ScopeIds : Drop(s)

SpecPeek == Init /\ [][NextPeek]_vars

\* LinearAllocator::new(1024) has returned, as in the tests of the allocator
InitLinear ==
    /\ block_start \in BlockStarts
    /\ size_bytes \in LinearCapacities
    /\ next_alloc = block_start
    /\ debug_assertions \in BOOLEAN
    /\ scopes = [s \in ScopeIds |-> NoScope]
    /\ allocs = <<>>
    /\ dtor_log = <<>>
    /\ last = NoLast
    /\ peeked = 0
    /\ halted = FALSE

\* no allocator has been constructed yet
InitNew ==
    /\ block_start = 0
    /\ size_bytes = 0
    /\ next_alloc = 0
    /\ debug_assertions \in BOOLEAN
    /\ scopes = [s \in ScopeIds |-> NoScope]
    /\ allocs = <<>>
    /\ dtor_log = <<>>
    /\ last = NoLast
    /\ peeked = 0
    /\ halted = FALSE

\* the operations of LinearAllocatorInternal alone
NextLinear ==
    \/ \E ty \in LinearTypes : AllocInternal(ty)
    \/ PeekOp
    \/ \E alloc \in RewindTokens : Rewind(alloc)

SpecLinear == InitLinear /\ [][NextLinear]_vars

\* LinearAllocator::new, then the operations of LinearAllocatorInternal on
\* the allocator it returned
NextNew ==
    \/ \E size \in NewSizes : LinearAllocatorNew(size)
    \/ /\ block_start # 0
       /\ \/ \E ty \in Types : AllocInternal(ty)
          \/ PeekOp
          \/ \E alloc \in RewindTokens : Rewind(alloc)

SpecNew == InitNew /\ [][NextNew]_vars

\* LinearAllocator::new, then the operations of LinearAllocatorInternal on
\* values at the limits of the target
NextWide ==
    \/ \E size \in NewSizes : LinearAllocatorNew(size)
    \/ /\ block_start # 0
       /\ \/ \E ty \in WideTypes : AllocInternal(ty)
          \/ PeekOp
          \/ \E alloc \in RewindTokens : Rewind(alloc)

SpecWide == InitNew /\ [][NextWide]_vars

(***************************************************************************)
(* Properties                                                              *)
(***************************************************************************)

\* the least number of bytes to skip from addr to reach a multiple of align
PaddingTo(addr, align) ==
    CHOOSE k \in 0..(align - 1) : (addr + k) % align = 0

\* the objects held by scopes that have not been dropped
LiveObjects ==
    {i \in 1..Len(allocs) : allocs[i].kind = "obj" /\ LiveRegion(allocs[i])}

\* the targets of the destructor calls made by the drop of scope s, in order
CallsBy(s) ==
    LET mine == SelectSeq(dtor_log, LAMBDA e : e.by = s)
    IN  [i \in 1..Len(mine) |-> mine[i].target]

\* the last operation was a drop that ran to its end or to the panic of rewind
DropReturned == last.op = "drop" /\ last.result \in {"ok", "panic_rewind"}

\* C1: the byte ranges of any two objects whose allocating scope has not
\* been dropped are disjoint.
C1_LiveObjectsDisjoint ==
    \A i, j \in LiveObjects :
        i # j => ~Overlaps(allocs[i].addr, allocs[i].size,
                           allocs[j].addr, allocs[j].size)

\* C2: among the live scopes at most one has locked = FALSE, and that scope
\* is the most recently created live scope.
C2_OnlyInnermostUnlocked ==
    /\ Cardinality({s \in LiveScopes : ~scopes[s].locked}) <= 1
    /\ \A s \in LiveScopes :
          ~scopes[s].locked => \A t \in LiveScopes : t <= s

\* C3: block_start <= cursor <= block_start + capacity in every state.
C3_CursorInBlock ==
    block_start <= next_alloc /\ next_alloc <= block_start + size_bytes

\* C3 witness: an allocation has moved the cursor to the very end of the block
C3_Witness ==
    /\ last.op \in {"alloc", "alloc_internal"}
    /\ last.result = "ok"
    /\ next_alloc = block_start + size_bytes

\* C4: the drop of a scope that allocated the objects with drop glue
\* o1, ..., oN in that order invokes their destructors in the order
\* oN, ..., o1.
C4_DestructorsInReverseOrder ==
    \A s \in ScopeIds :
        scopes[s].state = "dropped"
        => CallsBy(s) = Reverse(DropObjects(allocs, s, 1))

\* C5: after a scope is dropped the cursor equals the cursor observed just
\* before the scope was created.
C5_DropRestoresCursor ==
    DropReturned => next_alloc = scopes[last.scope].alloc_start

\* C6: alloc on a scope whose locked flag is true fails for every value type
\* and leaves the cursor, the scope's data_chain and every locked flag (and
\* the block) as they were.
C6_LockedAllocFails ==
    [][\A s \in ScopeIds, ty \in Types :
          (Alloc(s, ty) /\ scopes[s].locked)
          => /\ last'.result = "panic_locked"
             /\ next_alloc' = next_alloc
             /\ scopes' = scopes
             /\ allocs' = allocs]_vars

\* C6 witness: an alloc of a type with drop glue was refused on a locked scope
C6_Witness ==
    /\ last.op = "alloc"
    /\ last.was_locked
    /\ last.result = "panic_locked"
    /\ last.ty.needs_drop
    /\ LiveChildren(last.scope) # {}

\* C7: after the child of a scope is dropped the parent's locked flag is
\* false, the parent's alloc is not refused, and the objects the parent
\* allocated before it opened the child are as they were written.
C7_ParentUsableAfterChildDrop ==
    (DropReturned /\ scopes[last.scope].parent_locked # 0)
    => LET child  == last.scope
           parent == scopes[child].parent_locked
       IN  /\ ~scopes[parent].locked
           /\ ~AllocRefuses(parent)
           /\ \A i \in RegionsBy(allocs, parent) :
                 (allocs[i].kind = "obj" /\ i <= scopes[child].born)
                 => allocs[i].intact

\* C8: new_scope on a scope whose locked flag is already true fails and
\* creates no second child scope.
C8_DoubleChildRefused ==
    (last.op = "new_scope" /\ last.was_locked)
    => /\ last.result = "panic_locked"
       /\ scopes[last.value].state = "none"

C10_OutOfMemoryReport ==
    (last.op = "alloc_internal" /\ last.result = "panic_oom")
    => LET c == last.calls[1]
       IN  /\ c.size = last.ty.size
           /\ c.align = last.ty.align
           /\ c.remaining = size_bytes - (last.pre_cursor - block_start)
           /\ (size_bytes = 1024 /\ last.pre_cursor = block_start)
              => c.remaining = 1024
           /\ (size_bytes = 1024 /\ last.pre_cursor = block_start + 256)
              => c.remaining = 768

\* C10 witness: 1000 bytes aligned at 4 were asked for after 256 of 1024
C10_Witness ==
    /\ last.op = "alloc_internal"
    /\ last.result = "panic_oom"
    /\ size_bytes = 1024
    /\ last.ty.size = 1000
    /\ last.ty.align = 4
    /\ last.calls[1].remaining = 768

\* C11: the drop of a scope that allocated any interleaving of objects with
\* and without drop glue calls the destructor of each object with drop glue
\* once, of no object without drop glue, and of nothing else, the later
\* allocated object first.
C11_DropSome ==
    \A s \in ScopeIds :
        scopes[s].state = "dropped"
        => LET calls == CallsBy(s)
           IN  /\ \A i \in RegionsBy(allocs, s) :
                     allocs[i].kind = "obj"
                     => Cardinality({k \in 1..Len(calls) : calls[k] = i})
                            = IF allocs[i].needs_drop THEN 1 ELSE 0
               /\ \A k \in 1..Len(calls) :
                     /\ calls[k] \in RegionsBy(allocs, s)
                     /\ k > 1 => calls[k] < calls[k - 1]

\* C12: the addresses alloc returned to one scope are strictly increasing in
\* allocation order and the byte ranges of the scope's objects do not overlap.
C12_AddressesIncreaseInScope ==
    \A s \in ScopeIds :
        \A i, j \in RegionsBy(allocs, s) :
            (allocs[i].kind = "obj" /\ allocs[j].kind = "obj" /\ i < j)
            => /\ allocs[i].addr < allocs[j].addr
               /\ ~Overlaps(allocs[i].addr, allocs[i].size,
                            allocs[j].addr, allocs[j].size)

\* C13: every address a successful allocation returned is a multiple of the
\* alignment of the type asked for, also when that alignment is above the 64
\* the block is aligned to.
C13_AddressesAligned ==
    /\ \A i \in 1..Len(allocs) : allocs[i].addr % allocs[i].align = 0
    /\ \A k \in 1..Len(last.calls) :
          last.calls[k].ok => last.calls[k].addr % last.calls[k].align = 0

\* C13 witness: an allocation aligned at 128 has skipped padding in a block
\* that does not start at a multiple of 128
C13_Witness ==
    /\ last.op = "alloc_internal"
    /\ last.result = "ok"
    /\ last.ty.align > L1_CACHE_LINE_SIZE
    /\ block_start % last.ty.align # 0
    /\ last.calls[1].addr > last.pre_cursor

C15_GuardAcceptsClosedRange ==
    [][\A t \in RewindTokens :
          Rewind(t) => (last'.result = "ok" <=> InBlock(t))]_vars

C17_NewFailsOnlyOnLimits ==
    [][/\ \A size \in NewSizes :
             LinearAllocatorNew(size)
             => IF size = 0 \/ size >= IsizeMax
                THEN last'.result # "ok" /\ block_start' = 0
                ELSE /\ last'.result = "ok"
                     /\ block_start' # 0
                     /\ next_alloc' = block_start'
                     /\ size_bytes' = size
       /\ block_start # 0 => size_bytes' = size_bytes]_vars

\* C17 as amended: LinearAllocator::new fails when the capacity is 0 or above
\* isize::MAX - 63 (what the 64-aligned layout can hold); for every other
\* capacity it either brings the process down because the system allocator
\* returned null, or yields an allocator whose cursor is block_start and
\* whose capacity is the one asked for; the capacity and the start of an
\* allocator never change.
C17_NewFailsOnLayoutLimit ==
    [][/\ \A size \in NewSizes :
             LinearAllocatorNew(size)
             => IF size = 0 \/ size > IsizeMax - 63
                THEN /\ last'.result \in {"panic_size", "panic_layout"}
                     /\ block_start' = 0
                     /\ ~halted'
                ELSE \/ /\ last'.result = "abort"
                        /\ halted'
                        /\ block_start' = 0
                     \/ /\ last'.result = "ok"
                        /\ block_start' # 0
                        /\ next_alloc' = block_start'
                        /\ size_bytes' = size
       /\ block_start # 0
          => size_bytes' = size_bytes /\ block_start' = block_start]_vars

\* C17 witness: an allocator of a capacity just below the limit of the
\* layout has been constructed and allocated from, its capacity unchanged
C17_Witness ==
    /\ size_bytes = IsizeMax - 2 * L1_CACHE_LINE_SIZE
    /\ last.op = "alloc_internal"
    /\ last.result = "ok"

\* C18: when an alloc on a scope has failed and scopes are then exited, each
\* exit still runs every destructor the scope registered, the later first,
\* and still leaves the cursor at the scope's alloc_start.
C18_ExitAfterFailedAlloc ==
    (last.op = "drop" /\ last.unwinding)
    => /\ scopes[last.scope].state = "dropped"
       /\ CallsBy(last.scope) = Reverse(DropObjects(allocs, last.scope, 1))
       /\ next_alloc = scopes[last.scope].alloc_start

\* C19: every cursor value peek() can return passes the bounds assertion of
\* rewind, and no drop of a scope fails that assertion, also when the scope
\* was created on a full block.
C19_PeekPassesRewind ==
    /\ ~RewindPanics(Peek)
    /\ last.op = "drop" => last.result # "panic_rewind"

\* C20: no alloc moves the cursor back and no drop of a scope moves it
\* forward, whatever the order in which the live scopes are dropped.
C20_CursorMonotonic ==
    [][/\ (\E s \in ScopeIds, ty \in Types : Alloc(s, ty))
          => next_alloc' >= next_alloc
       /\ (\E s \in ScopeIds : Drop(s))
          => next_alloc' <= next_alloc]_vars

\* C21: a live scope's locked flag is true exactly when the scope has a live
\* child scope.
C21_LockedIffLiveChild ==
    \A s \in LiveScopes : scopes[s].locked <=> LiveChildren(s) # {}

\* C22 as stated: a successful alloc_internal returns the cursor rounded up
\* to the next multiple of the alignment and leaves the cursor at that
\* address plus the size; the allocation made with the cursor at block_start
\* is at block_start; of two consecutive allocations of one type the second
\* starts where the first ends.
C22_AllocAtRoundedCursor ==
    (last.op = "alloc_internal" /\ last.result = "ok")
    => LET c == last.calls[1]
       IN  /\ c.addr = last.pre_cursor + PaddingTo(last.pre_cursor, c.align)
           /\ next_alloc = c.addr + c.size
           /\ last.pre_cursor = block_start => c.addr = block_start
           /\ \A i \in 1..(Len(allocs) - 1) :
                 (/\ i = Len(allocs) - 1
                  /\ allocs[i].size = c.size
                  /\ allocs[i].align = c.align
                  /\ allocs[i].addr + allocs[i].size = last.pre_cursor)
                 => c.addr = allocs[i].addr + allocs[i].size

\* C22 as amended: as stated, but the allocation made with the cursor at
\* block_start is at block_start when the alignment asked for is at most the
\* 64 the block is aligned to; for a larger alignment it is at the first
\* multiple of that alignment from block_start on.
C22_AllocAtRoundedCursorFrom64 ==
    (last.op = "alloc_internal" /\ last.result = "ok")
    => LET c == last.calls[1]
       IN  /\ c.addr = last.pre_cursor + PaddingTo(last.pre_cursor, c.align)
           /\ next_alloc = c.addr + c.size
           /\ last.pre_cursor = block_start
              => IF c.align <= L1_CACHE_LINE_SIZE
                 THEN c.addr = block_start
                 ELSE c.addr = block_start + PaddingTo(block_start, c.align)
           /\ \A i \in 1..(Len(allocs) - 1) :
                 (/\ i = Len(allocs) - 1
                  /\ allocs[i].size = c.size
                  /\ allocs[i].align = c.align
                  /\ allocs[i].addr + allocs[i].size = last.pre_cursor)
                 => c.addr = allocs[i].addr + allocs[i].size

\* C22 witness: two_allocs, the second of two u32 allocated from the start
\* of the block is 4 bytes after the first
C22_Witness ==
    /\ last.op = "alloc_internal"
    /\ last.result = "ok"
    /\ last.ty.name = "u32"
    /\ Len(allocs) = 2
    /\ allocs[1].addr = block_start
    /\ allocs[1].size = 4
    /\ allocs[2].addr = block_start + 4
    /\ next_alloc = block_start + 8

C24_DropStepsInOrder ==
    [][\A s \in ScopeIds :
          /\ Drop(s)
             => LET parent == scopes[s].parent_locked
                IN  /\ last'.result \in {"abort", "hang"}
                       => next_alloc' = next_alloc /\ scopes' = scopes
                    /\ last'.result = "panic_rewind"
                       => /\ next_alloc' = next_alloc
                          /\ \A t \in ScopeIds :
                                scopes'[t].locked = scopes[t].locked
                          /\ \E o \in IterChain(scopes[s].data_chain) :
                                /\ o.status = "done"
                                /\ dtor_log' = dtor_log \o Logged(s, o.calls)
                    /\ (parent # 0 /\ scopes[parent].locked
                          /\ ~scopes'[parent].locked)
                       => /\ last'.result = "ok"
                          /\ next_alloc' = scopes[s].alloc_start
                    /\ last'.result = "ok"
                       => \E o \in IterChain(scopes[s].data_chain) :
                             /\ o.status = "done"
                             /\ dtor_log' = dtor_log \o Logged(s, o.calls)
          /\ scopes[s].state = "dropped" => CallsBy(s)' = CallsBy(s)]_vars

\* C24 witness: the drop of a child scope has invoked a destructor and then
\* panicked in rewind, with the cursor not moved
C24_Witness ==
    /\ last.op = "drop"
    /\ last.result = "panic_rewind"
    /\ CallsBy(last.scope) # <<>>
    /\ next_alloc = last.pre_cursor
    /\ scopes[last.scope].parent_locked # 0

\* C25: a successful alloc of a value with drop glue writes the ScopeData
\* before the object and below it, stores the scope's old data_chain in its
\* previous and the object's address in its mem, and makes it the scope's
\* data_chain, so that data_chain_len grows by exactly one.
C25_NodeThenObjectLinked ==
    [][\A s \in ScopeIds, ty \in Types :
          (Alloc(s, ty) /\ ty.needs_drop /\ last'.result = "ok")
          => LET node == scopes'[s].data_chain
                 obj  == allocs'[node].target
             IN  /\ node = Len(allocs) + 1
                 /\ obj = node + 1
                 /\ allocs'[node].kind = "node"
                 /\ allocs'[obj].kind = "obj"
                 /\ allocs'[node].addr = last'.calls[1].addr
                 /\ allocs'[obj].addr = last'.calls[2].addr
                 /\ allocs'[node].addr < allocs'[obj].addr
                 /\ allocs'[node].previous = scopes[s].data_chain
                 /\ ScopeChainLen(s)'
                      = {[len |-> r.len + 1, status |-> r.status] :
                             r \in ScopeChainLen(s)}]_vars

\* the ScopeData whose object did not fit
Orphans == {i \in 1..Len(allocs) : allocs[i].kind = "node" /\ allocs[i].target = 0}

\* the ScopeData that the walk from the node h on is certain to read
RECURSIVE WalkReads(_)
WalkReads(h) ==
    IF h = 0 THEN {}
    ELSE {h} \cup (IF allocs[h].intact THEN WalkReads(allocs[h].previous)
                   ELSE {})

\* C26: when alloc of a value with drop glue places the ScopeData and then
\* fails to place the object, the cursor stays behind the ScopeData and the
\* scope's data_chain is what it was; and no drop reads bytes of such a
\* ScopeData or calls a destructor on its unset mem.
C26_OrphanNodeNeverVisited ==
    [][/\ \A s \in ScopeIds, ty \in ObjTypes \cup Types :
             (Alloc(s, ty) /\ last'.result = "panic_oom"
                           /\ Len(last'.calls) = 2)
             => /\ next_alloc' = last'.calls[1].post
                /\ next_alloc' = last'.calls[1].addr + ScopeDataSize
                /\ scopes'[s].data_chain = scopes[s].data_chain
                /\ Len(allocs') \in Orphans'
       /\ \A s \in ScopeIds :
             Drop(s)
             => /\ \A n \in WalkReads(scopes[s].data_chain), o \in Orphans :
                      ~(o > n /\ Overlaps(allocs[n].addr, allocs[n].size,
                                          allocs[o].addr, allocs[o].size))
                /\ \A i \in (Len(dtor_log) + 1)..Len(dtor_log') :
                      dtor_log'[i].target # 0]_vars

\* C27: alloc of a value without drop glue writes no ScopeData, leaves the
\* scope's data_chain alone and moves the cursor as alloc_internal of that
\* value does; so the data_chain_len of every live scope is the number of
\* values with drop glue it has allocated.
C27_ChainLenCountsDroppables ==
    [][/\ \A s \in ScopeIds, ty \in Types :
             (Alloc(s, ty) /\ ~ty.needs_drop /\ last'.result # "panic_locked")
             => LET c == AllocInternalCall(next_alloc, ty.size, ty.align)
                IN  /\ scopes'[s].data_chain = scopes[s].data_chain
                    /\ next_alloc' = c.post
                    /\ last'.calls = <<c>>
                    /\ \A i \in (Len(allocs) + 1)..Len(allocs') :
                          allocs'[i].kind = "obj"
       /\ \A s \in LiveScopes' :
             ScopeChainLen(s)'
               = {[len |-> Cardinality({i \in RegionsBy(allocs', s) :
                                           /\ allocs'[i].kind = "obj"
                                           /\ allocs'[i].needs_drop}),
                   status |-> "done"]}]_vars

\* C28: over the whole run the destructor of an object with drop glue that
\* a scope allocated is called by the drop of that scope only, not at all
\* before that drop and once by it.
C28_DestructorOnceByOwnScope ==
    \A i \in 1..Len(allocs) :
        (allocs[i].kind = "obj" /\ allocs[i].needs_drop /\ allocs[i].scope # 0)
        => LET hits == {k \in 1..Len(dtor_log) : dtor_log[k].target = i}
           IN  /\ \A k \in hits : dtor_log[k].by = allocs[i].scope
               /\ Cardinality(hits)
                    = IF scopes[allocs[i].scope].state = "dropped"
                      THEN 1 ELSE 0

\* C29: at every destructor call of a drop, the ScopeData read and the
\* object it names are as they were written, lie between the alloc_start of
\* the scope and the cursor, and the call is on an object.
C29_ChainInsideLiveMemory ==
    [][\A s \in ScopeIds :
          Drop(s)
          => /\ \A n \in WalkReads(scopes[s].data_chain) :
                   /\ allocs[n].intact
                   /\ scopes[s].alloc_start <= allocs[n].addr
                   /\ allocs[n].addr + allocs[n].size <= next_alloc
             /\ \A k \in (Len(dtor_log) + 1)..Len(dtor_log') :
                   LET o == dtor_log'[k].target
                   IN  /\ o >= 1
                       /\ allocs[o].intact
                       /\ scopes[s].alloc_start <= allocs[o].addr
                       /\ allocs[o].addr + allocs[o].size <= next_alloc]_vars

\* C30: rewind moves the cursor and nothing else.  Called on the allocator it
\* calls no destructor, also not of the values with drop glue it rewinds
\* over, and leaves the block, the written memory and the fields of every
\* scope as they were; called by drop it adds no destructor call to those of
\* the walk of the chain and leaves the data_chain and alloc_start of every
\* scope and every locked but the parent's as they were.
C30_RewindMovesOnlyCursor ==
    [][/\ \A alloc \in RewindTokens :
             Rewind(alloc)
             => /\ next_alloc' \in {alloc, next_alloc}
                /\ dtor_log' = dtor_log
                /\ scopes' = scopes
                /\ allocs' = allocs
                /\ block_start' = block_start
                /\ size_bytes' = size_bytes
       /\ \A s \in ScopeIds :
             (Drop(s) /\ last'.result \in {"ok", "panic_rewind"})
             => /\ \E o \in IterChain(scopes[s].data_chain) :
                      dtor_log' = dtor_log \o Logged(s, o.calls)
                /\ allocs' = allocs
                /\ \A t \in ScopeIds :
                      /\ scopes'[t].data_chain = scopes[t].data_chain
                      /\ scopes'[t].alloc_start = scopes[t].alloc_start
                      /\ t # scopes[s].parent_locked
                         => scopes'[t].locked = scopes[t].locked]_vars

\* a rewind on the allocator has moved the cursor below a value with drop
\* glue, after a scope over the allocator was used and dropped, and no
\* destructor of that value has been called
C30_Witness ==
    /\ last.op = "rewind"
    /\ last.result = "ok"
    /\ \E s \in ScopeIds : scopes[s].state = "dropped"
    /\ \E i \in 1..Len(allocs) :
          /\ allocs[i].needs_drop
          /\ allocs[i].scope = 0
          /\ allocs[i].addr >= next_alloc
          /\ \A k \in 1..Len(dtor_log) : dtor_log[k].target # i

\* C31: new and new_scope leave the cursor, the written memory and the
\* destructor calls as they were and yield a scope whose alloc_start is the
\* cursor, whose data_chain is empty and whose locked is false; new changes
\* no other scope, new_scope changes of the other scopes only the locked of
\* the parent, which it sets; peek returns the cursor and changes nothing.
C31_ScopeCreationFrame ==
    [][/\ (New \/ \E p \in ScopeIds : NewScope(p))
          => LET c == NumCreated + 1
             IN  /\ next_alloc' = next_alloc
                 /\ allocs' = allocs
                 /\ dtor_log' = dtor_log
                 /\ block_start' = block_start
                 /\ size_bytes' = size_bytes
                 /\ scopes'[c].state = "live"
                 /\ scopes'[c].alloc_start = next_alloc
                 /\ scopes'[c].data_chain = 0
                 /\ scopes'[c].locked = FALSE
                 /\ \A t \in ScopeIds \ {c} :
                       IF NewScope(t)
                       THEN scopes'[t] = [scopes[t] EXCEPT !.locked = TRUE]
                       ELSE scopes'[t] = scopes[t]
       /\ PeekOp
          => /\ last'.value = next_alloc
             /\ UNCHANGED <<block_start, size_bytes, next_alloc, scopes,
                            allocs, dtor_log, halted>>]_vars

\* new_scope has been called on a scope that holds an object with drop glue,
\* with the cursor above that scope's alloc_start
C31_Witness ==
    /\ last.op = "new_scope"
    /\ scopes[last.scope].data_chain # 0
    /\ scopes[last.scope].locked
    /\ scopes[last.scope].alloc_start < next_alloc
    /\ scopes[last.value].alloc_start = next_alloc
    /\ scopes[last.value].parent_locked = last.scope

\* the objects with drop glue of scope p, as written, that lie at the
\* address of region o: a destructor call on o runs on such an object
ObjectsAt(p, o) ==
    {i \in RegionsBy(allocs, p) :
        /\ allocs[i].kind = "obj"
        /\ allocs[i].needs_drop
        /\ allocs[i].intact
        /\ o >= 1
        /\ allocs[i].addr = allocs[o].addr}

\* C32: the drop of a child scope leaves the data_chain and alloc_start of
\* its parent and every region the parent wrote before the child was
\* created as they were, and calls no destructor on an object of the parent.
C32_ChildDropLeavesParent ==
    [][\A s \in ScopeIds :
          (Drop(s) /\ scopes[s].parent_locked # 0)
          => LET p == scopes[s].parent_locked
             IN  /\ scopes'[p].data_chain = scopes[p].data_chain
                 /\ scopes'[p].alloc_start = scopes[p].alloc_start
                 /\ \A i \in RegionsBy(allocs, p) :
                       i <= scopes[s].born => allocs'[i] = allocs[i]
                 /\ \A k \in (Len(dtor_log) + 1)..Len(dtor_log') :
                       ObjectsAt(p, dtor_log'[k].target) = {}]_vars

\* C33: the drop of a scope with a parent clears the locked of that parent
\* and changes no other locked, the drop of a root scope changes no locked;
\* so in a nesting root, child, grandchild the root is locked for as long as
\* the child is alive.
C33_DropClearsOnlyParentFlag ==
    [][/\ \A s \in ScopeIds :
             Drop(s)
             => LET p == scopes[s].parent_locked
                IN  /\ p # 0 => scopes'[p].locked = FALSE
                    /\ \A t \in ScopeIds \ {p} :
                          scopes'[t].locked = scopes[t].locked
       /\ \A r, c, g \in ScopeIds :
             (/\ scopes'[r].parent_locked = 0
              /\ scopes'[c].parent_locked = r
              /\ scopes'[g].parent_locked = c
              /\ scopes'[c].state = "live")
             => scopes'[r].locked]_vars

\* the ScopeData linked into the chain of scope s, the newest first, as alloc
\* stored them
RECURSIVE StoredChain(_)
StoredChain(h) ==
    IF h = 0 THEN <<>> ELSE <<h>> \o StoredChain(allocs[h].previous)

\* C34: the previous of every ScopeData in the chain of a live scope is none
\* or an older ScopeData of the same scope at another address that is as it
\* was written; so the walk of drop ends, having read each ScopeData of the
\* chain once, and the drop returns.
C34_ChainAcyclicWalkEnds ==
    /\ \A s \in LiveScopes :
          LET chain == StoredChain(scopes[s].data_chain)
          IN  /\ \A k \in 1..Len(chain) :
                    LET n == chain[k]
                        m == allocs[n].previous
                    IN  /\ allocs[n].kind = "node"
                        /\ allocs[n].scope = s
                        /\ allocs[n].intact
                        /\ m # 0 => /\ m < n
                                    /\ allocs[m].addr # allocs[n].addr
              /\ \A o \in IterChain(scopes[s].data_chain) :
                    /\ o.status = "done"
                    /\ Len(o.calls) = Len(chain)
    /\ last.op = "drop" => DropReturned

\* C35: with the capacity below isize::MAX, at every cursor the program
\* reaches and for every type whose size passes the assert of alloc_internal,
\* previous_size is the distance of the cursor from the start of the block
\* and previous_size + align_offset + size is at most usize::MAX: the
\* addition in usize does not wrap.
C35_NewSizeNeverWraps ==
    (block_start # 0 /\ ~halted)
    => \A ty \in WideTypes :
          SizeAdmitted(ty.size)
          => LET previous_size == PreviousSizeUsize(next_alloc)
                 align_offset  == AlignOffset(next_alloc, ty.align)
             IN  /\ size_bytes < IsizeMax
                 /\ previous_size = PreviousSize(next_alloc)
                 /\ previous_size <= size_bytes
                 /\ previous_size + align_offset + ty.size <= UsizeMax

\* alloc_internal has computed a new_size above isize::MAX: a value of
\* nearly isize::MAX / 2 bytes was asked for, at an odd cursor near the end
\* of a block of nearly isize::MAX bytes
C35_Witness ==
    /\ last.op = "alloc_internal"
    /\ last.result = "panic_oom"
    /\ last.ty.size = IsizeMax \div 2 - 1
    /\ LET c == last.calls[1]
       IN  /\ AlignOffset(c.pre, c.align) > 0
           /\ PreviousSize(c.pre) + AlignOffset(c.pre, c.align) + c.size
                > IsizeMax

====
